---- MODULE Spec2Model ----
(***************************************************************************)
(* Hot-reload state preservation of the Parcel + Phaser platformer.        *)
(*                                                                         *)
(* Two reload coordinators live in the repository:                         *)
(*   "destroying"  src/unnamed/part_000: the engine is built at module     *)
(*                 scope, dispose destroys it, create() copies position.   *)
(*   "retaining"   src/src/game.ts (and src/unnamed/part_002): dispose     *)
(*                 hands the engine over in module.hot.data, a zero-delay  *)
(*                 timer builds an engine when the module has none.        *)
(* Each evaluation of the module gives a new module instance with its own  *)
(* module-level bindings (_game, _player, _reloadCount); the callbacks and *)
(* the scene class of an instance close over that instance's bindings.     *)
(* JavaScript runs every task to completion: a reload (dispose, evaluate,  *)
(* accept) is one task, and timers and engine callbacks are other tasks.   *)
(*                                                                         *)
(* Spec is the reload protocol with the engines' frames; SceneSpec is the  *)
(* scene of one running engine (update(), the spike collider, its tweens)  *)
(* with the polled input recorded, and no reload.                          *)
(***************************************************************************)
EXTENDS Integers, Sequences, FiniteSets, TLC

VARIABLES
    variant,        \* which coordinator is loaded: "destroying" or "retaining"
    hot,            \* whether module.hot is present
    pc,             \* position of the host: "load", "idle", "disposed", "evaluated"
    cur,            \* the newest module instance (1 at process start, +1 per reload)
    GRAVITY,        \* GRAVITY_Y of each module instance
    _game,          \* _game (game in part_000) of each module instance
    _player,        \* _player of each module instance
    _reloadCount,   \* _reloadCount of each module instance
    timer,          \* the setTimeout of each module instance
    disposeLog,     \* whether each module instance's dispose callback has run
    acceptLog,      \* outcome of each module instance's accept callback
    hotData,        \* module.hot.data, the Reload Registry
    engines,        \* the Phaser.Game each module instance constructed, if any
    players,        \* the sprite each engine's create() made, if any
    steps,          \* frames run so far
    tornPos,        \* position of the player when the last dispose ran
    tornAlive,      \* the engines that were alive when the last dispose ran
    regOps,         \* accesses to module.hot.data so far: "w" by dispose, "r" by accept
    scene,          \* which MyScene is observed: "plain" (game.ts) or "fuller" (part_000)
    cursors,        \* the cursor keys as the last observed frame polled them
    blockedDown,    \* body.onFloor() as the last observed frame polled it
    tweens          \* the tweens the spike collider has added and that still run

\* what only the scene specification changes
sceneVars == <<scene, cursors, blockedDown, tweens>>

vars == <<variant, hot, pc, cur, GRAVITY, _game, _player, _reloadCount, timer,
          disposeLog, acceptLog, hotData, engines, players, steps, tornPos, tornAlive,
          regOps, scene, cursors, blockedDown, tweens>>

----------------------------------------------------------------------------
(* Bounds of the model *)

MaxReloads == 2
MaxFrames == 2
MaxHits == 1

(* Constants of the program *)

GRAVITY_Y == 400
SpawnX == 50
SpawnY == 300
WalkSpeed == 200
JumpSpeed == 350
BlinkRepeat == 5
WorldWidth == 800
WorldHeight == 640

None == 0
Undefined == 0 - 1
Modules == 1 .. (MaxReloads + 1)
Gravities == {GRAVITY_Y, GRAVITY_Y + GRAVITY_Y}
EmptyData == [game |-> None, player |-> None, reloadCount |-> Undefined]

Min(a, b) == IF a < b THEN a ELSE b
Max(a, b) == IF a > b THEN a ELSE b

----------------------------------------------------------------------------
(* Engine capability surface *)

\* An engine is named after the module instance that constructed it (an instance
\* constructs at most one), and a sprite after the engine whose create() made it.
NoGame == [state |-> "none", created |-> FALSE, via |-> "none"]
NoSprite == [engine |-> None, x |-> 0, y |-> 0, vx |-> 0, vy |-> 0,
             flipX |-> FALSE, gravityY |-> 0, anim |-> "none", alpha |-> 1]
NoKeys == [left |-> FALSE, right |-> FALSE, up |-> FALSE, space |-> FALSE]

\* new Phaser.Game({... scene: MyScene ...}); the scene is the one of the module
\* instance that runs the constructor
createGame(via) == [state |-> "alive", created |-> FALSE, via |-> via]

\* game.destroy(true)
destroy(gs, g) == IF g = None THEN gs ELSE [gs EXCEPT ![g].state = "destroyed"]

\* this.physics.add.sprite(50, 300, "player") with setGravityY(GRAVITY_Y)
sprite(e, g) ==
    [engine |-> e, x |-> SpawnX, y |-> SpawnY, vx |-> 0, vy |-> 0,
     flipX |-> FALSE, gravityY |-> g, anim |-> "none", alpha |-> 1]

\* a copy that forgets the y coordinate
setPosition_XOnly(p, x, y) == [p EXCEPT !.x = x]

\* player.setPosition(_player.x, _player.y)
setPosition(p, x, y) == [p EXCEPT !.x = x, !.y = y]

Alive == {e \in Modules : engines[e].state = "alive"}

----------------------------------------------------------------------------
Init ==
    /\ variant \in {"destroying", "retaining"}
    /\ hot \in BOOLEAN
    /\ pc = "load"
    /\ cur = 1
    /\ GRAVITY = [m \in Modules |-> GRAVITY_Y]
    /\ _game = [m \in Modules |-> None]
    /\ _player = [m \in Modules |-> None]
    /\ _reloadCount = [m \in Modules |-> 0]
    /\ timer = [m \in Modules |-> "unset"]
    /\ disposeLog = [m \in Modules |-> FALSE]
    /\ acceptLog = [m \in Modules |-> "none"]
    /\ hotData = EmptyData
    /\ engines = [m \in Modules |-> NoGame]
    /\ players = [m \in Modules |-> NoSprite]
    /\ steps = 0
    /\ tornPos = <<>>
    /\ tornAlive = {}
    /\ regOps = <<>>
    /\ scene = "plain"
    /\ cursors = NoKeys
    /\ blockedDown = FALSE
    /\ tweens = <<>>

----------------------------------------------------------------------------
(* Module scope: what evaluating the module does *)

\* part_000: const game = new Phaser.Game(...) at module scope
EvaluateDestroying(m) ==
    /\ engines' = [engines EXCEPT ![m] = createGame("direct")]
    /\ _game' = [_game EXCEPT ![m] = m]
    /\ timer' = timer

\* a module scope that lost its else branch: nothing constructs without module.hot
EvaluateRetaining_NoElse(m) ==
    /\ timer' = (IF hot THEN [timer EXCEPT ![m] = "pending"] ELSE timer)
    /\ _game' = [_game EXCEPT ![m] = None]
    /\ engines' = engines

\* game.ts: if (module.hot) { ... setTimeout(...) } else { _game = createGame() }
EvaluateRetaining(m) ==
    IF hot
    THEN /\ timer' = [timer EXCEPT ![m] = "pending"]
         /\ _game' = [_game EXCEPT ![m] = None]
         /\ engines' = engines
    ELSE /\ engines' = [engines EXCEPT ![m] = createGame("direct")]
         /\ _game' = [_game EXCEPT ![m] = m]
         /\ timer' = timer

\* let _player; let _reloadCount = 0; and the rest of the module scope
Evaluate(m) ==
    /\ IF variant = "destroying" THEN EvaluateDestroying(m) ELSE EvaluateRetaining(m)
    /\ _player' = [_player EXCEPT ![m] = None]
    /\ _reloadCount' = [_reloadCount EXCEPT ![m] = 0]

----------------------------------------------------------------------------
(* The callbacks handed to module.hot *)

\* part_000: module.hot.dispose
disposeDestroying ==
    /\ hotData' = [game |-> None, player |-> _player[cur],
                   reloadCount |-> _reloadCount[cur]]
    /\ regOps' = Append(regOps, "w")
    /\ engines' = destroy(engines, _game[cur])

\* a dispose callback that hands nothing over
disposeRetaining_NoWrite ==
    /\ hotData' = hotData
    /\ regOps' = regOps
    /\ engines' = engines

\* game.ts: module.hot.dispose
disposeRetaining ==
    /\ hotData' = [game |-> _game[cur], player |-> _player[cur],
                   reloadCount |-> _reloadCount[cur]]
    /\ regOps' = Append(regOps, "w")
    /\ engines' = engines

\* an accept callback that restores the counter without counting the reload
restoreCount_NoIncrement(data) == data.reloadCount

\* the counter an accept callback restores
restoreCount(data) == data.reloadCount + 1

\* an accept callback that restores the counter only
acceptDestroying_KeepPlayer ==
    /\ _reloadCount' = [_reloadCount EXCEPT ![cur] = restoreCount(hotData)]
    /\ acceptLog' = [acceptLog EXCEPT ![cur] = "returned"]
    /\ regOps' = Append(regOps, "r")
    /\ UNCHANGED <<_player, _game, players>>

\* part_000: module.hot.accept
acceptDestroying ==
    /\ _player' = [_player EXCEPT ![cur] = hotData.player]
    /\ _reloadCount' = [_reloadCount EXCEPT ![cur] = restoreCount(hotData)]
    /\ acceptLog' = [acceptLog EXCEPT ![cur] = "returned"]
    /\ regOps' = Append(regOps, "r")
    /\ UNCHANGED <<_game, players>>

\* game.ts: module.hot.accept; _player.setGravityY throws when _player is undefined
acceptRetaining ==
    /\ _reloadCount' = [_reloadCount EXCEPT ![cur] = restoreCount(hotData)]
    /\ _game' = [_game EXCEPT ![cur] = hotData.game]
    /\ _player' = [_player EXCEPT ![cur] = hotData.player]
    /\ regOps' = Append(regOps, "r")
    /\ IF hotData.player = None
       THEN /\ acceptLog' = [acceptLog EXCEPT ![cur] = "threw"]
            /\ players' = players
       ELSE /\ acceptLog' = [acceptLog EXCEPT ![cur] = "returned"]
            /\ players' = [players EXCEPT ![hotData.player].gravityY = GRAVITY[cur]]

----------------------------------------------------------------------------
(* The scene *)

\* a create() that does not copy the old position (the create() of part_001)
createDestroying_NoCopy(e, k) ==
    /\ players' = [players EXCEPT ![e] = sprite(e, GRAVITY[k])]
    /\ _player' = [_player EXCEPT ![k] = e]

\* a create() that keeps its new sprite to itself
createDestroying_NoPublish(e, k) ==
    LET player == sprite(e, GRAVITY[k])
        placed == IF _player[k] # None
                  THEN setPosition(player, players[_player[k]].x, players[_player[k]].y)
                  ELSE player
    IN /\ players' = [players EXCEPT ![e] = placed]
       /\ _player' = _player

\* part_000: MyScene.create for the scene of module instance k on engine e
createDestroying(e, k) ==
    LET player == sprite(e, GRAVITY[k])
        placed == IF _player[k] # None
                  THEN setPosition(player, players[_player[k]].x, players[_player[k]].y)
                  ELSE player
    IN /\ players' = [players EXCEPT ![e] = placed]
       /\ _player' = [_player EXCEPT ![k] = e]

\* game.ts: MyScene.create
createRetaining(e, k) ==
    /\ players' = [players EXCEPT ![e] = sprite(e, GRAVITY[k])]
    /\ _player' = [_player EXCEPT ![k] = e]

\* update() that lets the player coast when no key is down
update_Coast(p, left, right, up, space, onFloor) ==
    LET vx == IF left THEN 0 - WalkSpeed ELSE IF right THEN WalkSpeed ELSE p.vx
        vy == IF (space \/ up) /\ onFloor THEN 0 - JumpSpeed ELSE p.vy
        flipX == IF vx > 0 THEN FALSE ELSE IF vx < 0 THEN TRUE ELSE p.flipX
    IN [p EXCEPT !.vx = vx, !.vy = vy, !.flipX = flipX]

\* update() that jumps without asking for the floor
update_AirJump(p, left, right, up, space, onFloor) ==
    LET vx == IF left THEN 0 - WalkSpeed ELSE IF right THEN WalkSpeed ELSE 0
        vy == IF space \/ up THEN 0 - JumpSpeed ELSE p.vy
        flipX == IF vx > 0 THEN FALSE ELSE IF vx < 0 THEN TRUE ELSE p.flipX
    IN [p EXCEPT !.vx = vx, !.vy = vy, !.flipX = flipX]

\* update() that faces right whenever the player does not move left
update_FaceByVelocity(p, left, right, up, space, onFloor) ==
    LET vx == IF left THEN 0 - WalkSpeed ELSE IF right THEN WalkSpeed ELSE 0
        vy == IF (space \/ up) /\ onFloor THEN 0 - JumpSpeed ELSE p.vy
    IN [p EXCEPT !.vx = vx, !.vy = vy, !.flipX = (vx < 0)]

\* MyScene.update on sprite p with the cursor keys and body.onFloor()
update(p, left, right, up, space, onFloor) ==
    LET vx == IF left THEN 0 - WalkSpeed ELSE IF right THEN WalkSpeed ELSE 0
        vy == IF (space \/ up) /\ onFloor THEN 0 - JumpSpeed ELSE p.vy
        flipX == IF vx > 0 THEN FALSE ELSE IF vx < 0 THEN TRUE ELSE p.flipX
    IN [p EXCEPT !.vx = vx, !.vy = vy, !.flipX = flipX]

\* one step of the arcade physics on sprite p (a frame lasts one second of game
\* time): gravity accelerates, velocity moves, the world bounds stop the body
\* update() of the fuller scene that shows idle without asking for the floor
updateFuller_IdleInAir(p, left, right, up, space, onFloor) ==
    LET vx == IF left THEN 0 - WalkSpeed ELSE IF right THEN WalkSpeed ELSE 0
        moved == IF left \/ right
                 THEN IF onFloor THEN "walk" ELSE p.anim
                 ELSE "idle"
        jumps == (space \/ up) /\ onFloor
        flipX == IF vx > 0 THEN FALSE ELSE IF vx < 0 THEN TRUE ELSE p.flipX
    IN [p EXCEPT !.vx = vx,
                 !.vy = IF jumps THEN 0 - JumpSpeed ELSE p.vy,
                 !.anim = IF jumps THEN "jump" ELSE moved,
                 !.flipX = flipX]

\* MyScene.update() of the fuller scene: the same controls, and play(key, true)
updateFuller(p, left, right, up, space, onFloor) ==
    LET vx == IF left THEN 0 - WalkSpeed ELSE IF right THEN WalkSpeed ELSE 0
        moved == IF left \/ right
                 THEN IF onFloor THEN "walk" ELSE p.anim
                 ELSE IF onFloor THEN "idle" ELSE p.anim
        jumps == (space \/ up) /\ onFloor
        flipX == IF vx > 0 THEN FALSE ELSE IF vx < 0 THEN TRUE ELSE p.flipX
    IN [p EXCEPT !.vx = vx,
                 !.vy = IF jumps THEN 0 - JumpSpeed ELSE p.vy,
                 !.anim = IF jumps THEN "jump" ELSE moved,
                 !.flipX = flipX]

\* a spike callback that respawns the player without stopping it
spikeCollide_KeepVelocity(p) ==
    [p EXCEPT !.x = SpawnX, !.y = SpawnY, !.anim = "idle", !.alpha = 0]

\* the callback of physics.add.collider(player, spikes, ...)
spikeCollide(p) ==
    [p EXCEPT !.vx = 0, !.vy = 0, !.x = SpawnX, !.y = SpawnY, !.anim = "idle", !.alpha = 0]

\* tweens.add({targets: player, alpha: 1, duration: 100, ease: "Linear", repeat: 5})
BlinkTween == [target |-> 1, alpha |-> 1, repeat |-> BlinkRepeat, at |-> "start"]

integrate(p) ==
    LET vy == p.vy + p.gravityY
        x == p.x + p.vx
        y == p.y + vy
    IN [p EXCEPT !.x = Max(0, Min(WorldWidth, x)),
                 !.y = Max(0, Min(WorldHeight, y)),
                 !.vy = IF y < 0 \/ y > WorldHeight THEN 0 ELSE vy]

----------------------------------------------------------------------------
(* Tasks of the event loop *)

\* an engine that calls create() from inside its constructor, in the task that
\* constructs it
CanBoot_Sync(e) == engines[e].state = "alive" /\ ~engines[e].created

\* the engine calls the scene's create() in a task of its own, once it has booted
CanBoot(e) == pc = "idle" /\ engines[e].state = "alive" /\ ~engines[e].created

\* process start: the module is evaluated for the first time
Start ==
    /\ pc = "load"
    /\ Evaluate(1)
    /\ pc' = "idle"
    /\ UNCHANGED <<variant, hot, cur, GRAVITY, disposeLog, acceptLog, hotData, players, steps,
                   tornPos, tornAlive>>
    /\ UNCHANGED <<regOps, sceneVars>>

\* a dispose callback that also drops the module's player reference
Teardown_ClearsPlayer ==
    /\ pc = "idle"
    /\ hot
    /\ cur <= MaxReloads
    /\ IF variant = "destroying" THEN disposeDestroying ELSE disposeRetaining
    /\ tornPos' = IF _player[cur] = None THEN <<>>
                  ELSE <<players[_player[cur]].x, players[_player[cur]].y>>
    /\ tornAlive' = Alive
    /\ disposeLog' = [disposeLog EXCEPT ![cur] = TRUE]
    /\ pc' = "disposed"
    /\ _player' = [_player EXCEPT ![cur] = None]
    /\ UNCHANGED <<variant, hot, cur, GRAVITY, _game, _reloadCount, timer,
                   acceptLog, players, steps>>
    /\ UNCHANGED <<sceneVars>>

\* the host calls the dispose callback of the current module instance
Teardown ==
    /\ pc = "idle"
    /\ hot
    /\ cur <= MaxReloads
    /\ IF variant = "destroying" THEN disposeDestroying ELSE disposeRetaining
    /\ tornPos' = IF _player[cur] = None THEN <<>>
                  ELSE <<players[_player[cur]].x, players[_player[cur]].y>>
    /\ tornAlive' = Alive
    /\ disposeLog' = [disposeLog EXCEPT ![cur] = TRUE]
    /\ pc' = "disposed"
    /\ UNCHANGED <<variant, hot, cur, GRAVITY, _game, _player, _reloadCount, timer,
                   acceptLog, players, steps>>
    /\ UNCHANGED <<sceneVars>>

\* the host installs the edited module and evaluates its scope
Replace ==
    /\ pc = "disposed"
    /\ cur' = cur + 1
    /\ \E g \in Gravities : GRAVITY' = [GRAVITY EXCEPT ![cur + 1] = g]
    /\ Evaluate(cur + 1)
    /\ pc' = "evaluated"
    /\ UNCHANGED <<variant, hot, disposeLog, acceptLog, hotData, players, steps, tornPos,
                   tornAlive>>
    /\ UNCHANGED <<regOps, sceneVars>>

\* the host calls the accept callback of the new module instance
Accept ==
    /\ pc = "evaluated"
    /\ IF variant = "destroying" THEN acceptDestroying ELSE acceptRetaining
    /\ pc' = "idle"
    /\ UNCHANGED <<variant, hot, cur, GRAVITY, timer, disposeLog, hotData, engines, steps,
                   tornPos, tornAlive>>
    /\ UNCHANGED <<sceneVars>>

\* a timer callback that never constructs
TimerFire_NoBuild(m) ==
    /\ pc = "idle"
    /\ timer[m] = "pending"
    /\ timer' = [timer EXCEPT ![m] = "fired"]
    /\ UNCHANGED <<engines, _game>>
    /\ UNCHANGED <<variant, hot, pc, cur, GRAVITY, _player, _reloadCount, disposeLog,
                   acceptLog, hotData, players, steps, tornPos, tornAlive>>
    /\ UNCHANGED <<regOps, sceneVars>>

\* game.ts: the zero-delay timer of module instance m fires
TimerFire(m) ==
    /\ pc = "idle"
    /\ timer[m] = "pending"
    /\ timer' = [timer EXCEPT ![m] = "fired"]
    /\ IF _game[m] = None
       THEN /\ engines' = [engines EXCEPT ![m] = createGame("deferred")]
            /\ _game' = [_game EXCEPT ![m] = m]
       ELSE UNCHANGED <<engines, _game>>
    /\ UNCHANGED <<variant, hot, pc, cur, GRAVITY, _player, _reloadCount, disposeLog,
                   acceptLog, hotData, players, steps, tornPos, tornAlive>>
    /\ UNCHANGED <<regOps, sceneVars>>

\* engine e calls create() of its scene
Create(e) ==
    /\ CanBoot(e)
    /\ IF variant = "destroying"
       THEN createDestroying(e, e)
       ELSE createRetaining(e, e)
    /\ engines' = [engines EXCEPT ![e].created = TRUE]
    /\ UNCHANGED <<variant, hot, pc, cur, GRAVITY, _game, _reloadCount, timer,
                   disposeLog, acceptLog, hotData, steps, tornPos, tornAlive>>
    /\ UNCHANGED <<regOps, sceneVars>>

\* engine e runs one frame: its physics world steps, then update() of its scene runs
Frame(e) ==
    /\ pc = "idle"
    /\ engines[e].state = "alive"
    /\ engines[e].created
    /\ steps < MaxFrames
    /\ _player[e] # None
    /\ \E after \in {update(integrate(players[_player[e]]), left, right, up, space, onFloor) :
                         left, right, up, space, onFloor \in BOOLEAN} :
          players' = [players EXCEPT ![_player[e]] = after]
    /\ steps' = steps + 1
    /\ UNCHANGED <<variant, hot, pc, cur, GRAVITY, _game, _player, _reloadCount, timer,
                   disposeLog, acceptLog, hotData, engines, tornPos, tornAlive>>
    /\ UNCHANGED <<regOps, sceneVars>>

Next ==
    \/ Start
    \/ Teardown
    \/ Replace
    \/ Accept
    \/ \E m \in Modules : TimerFire(m)
    \/ \E e \in Modules : Create(e)
    \/ \E e \in Modules : Frame(e)

Spec == Init /\ [][Next]_vars

\* the tasks the event loop runs whenever one of them is ready: the module's
\* start, the rest of a reload once its dispose ran, a timer that is due, an
\* engine's boot; whether a further reload or frame happens is up to the developer
ReadyTask ==
    \/ Start
    \/ Replace
    \/ Accept
    \/ \E m \in Modules : TimerFire(m)
    \/ \E e \in Modules : Create(e)

\* the reload protocol without the frames: a frame changes the motion of a sprite
\* and the frame count only, so it neither readies nor cancels a task
LiveNext == ReadyTask \/ Teardown

LiveSpec == Init /\ [][LiveNext]_vars /\ WF_vars(ReadyTask)

----------------------------------------------------------------------------
(* The scene of one running engine, its input recorded; no reload happens *)

\* values of the GRAVITY_Y constant the running module may have been built with
SceneGravities == {GRAVITY_Y \div 2, GRAVITY_Y}

\* the program after its scene was created: game.ts for "plain", part_000 for "fuller"
SceneInit ==
    /\ scene \in {"plain", "fuller"}
    /\ variant = (IF scene = "plain" THEN "retaining" ELSE "destroying")
    /\ hot = FALSE
    /\ pc = "idle"
    /\ cur = 1
    /\ GRAVITY \in [Modules -> SceneGravities]
    /\ \A m \in Modules : GRAVITY[m] = GRAVITY[1]
    /\ _game = [m \in Modules |-> IF m = 1 THEN 1 ELSE None]
    /\ _player = [m \in Modules |-> IF m = 1 THEN 1 ELSE None]
    /\ _reloadCount = [m \in Modules |-> 0]
    /\ timer = [m \in Modules |-> IF m = 1 /\ scene = "plain" THEN "fired" ELSE "unset"]
    /\ disposeLog = [m \in Modules |-> FALSE]
    /\ acceptLog = [m \in Modules |-> "none"]
    /\ hotData = EmptyData
    /\ engines = [m \in Modules |->
                    IF m = 1
                    THEN [state |-> "alive", created |-> TRUE,
                          via |-> IF scene = "plain" THEN "deferred" ELSE "direct"]
                    ELSE NoGame]
    /\ players = [m \in Modules |-> IF m = 1 THEN sprite(1, GRAVITY[1]) ELSE NoSprite]
    /\ steps = 0
    /\ tornPos = <<>>
    /\ tornAlive = {}
    /\ regOps = <<>>
    /\ cursors = NoKeys
    /\ blockedDown = FALSE
    /\ tweens = <<>>

sceneFixed == <<variant, hot, pc, cur, GRAVITY, _game, _player, _reloadCount, timer,
                disposeLog, acceptLog, hotData, engines, tornPos, tornAlive, regOps, scene>>

\* one frame of the engine: the physics world steps, then update() polls the
\* cursor keys and the floor contact and acts on them
PlayFrame ==
    /\ steps < MaxFrames
    /\ \E left, right, up, space, floor \in BOOLEAN :
          /\ cursors' = [left |-> left, right |-> right, up |-> up, space |-> space]
          /\ blockedDown' = floor
          /\ players' = [players EXCEPT ![1] =
                IF scene = "fuller"
                THEN updateFuller(integrate(players[1]), left, right, up, space, floor)
                ELSE update(integrate(players[1]), left, right, up, space, floor)]
    /\ steps' = steps + 1
    /\ UNCHANGED <<sceneFixed, tweens>>

\* the physics world reports a contact of the player with a spike
SpikeHit ==
    /\ scene = "fuller"
    /\ Len(tweens) < MaxHits
    /\ players' = [players EXCEPT ![1] = spikeCollide(players[1])]
    /\ tweens' = Append(tweens, BlinkTween)
    /\ UNCHANGED <<sceneFixed, cursors, blockedDown, steps>>

\* the tween manager advances tween i: a run ends at its target alpha, a repeat
\* starts again from the alpha the tween started at, the last run removes it
TweenRun(i) ==
    /\ i \in 1 .. Len(tweens)
    /\ IF tweens[i].at = "start"
       THEN /\ tweens' = [tweens EXCEPT ![i].at = "end"]
            /\ players' = [players EXCEPT ![1].alpha = tweens[i].alpha]
       ELSE IF tweens[i].repeat > 0
       THEN /\ tweens' = [tweens EXCEPT ![i].at = "start", ![i].repeat = @ - 1]
            /\ players' = [players EXCEPT ![1].alpha = 0]
       ELSE /\ tweens' = [k \in 1 .. (Len(tweens) - 1) |->
                             IF k < i THEN tweens[k] ELSE tweens[k + 1]]
            /\ players' = players
    /\ UNCHANGED <<sceneFixed, cursors, blockedDown, steps>>

SceneNext ==
    \/ PlayFrame
    \/ SpikeHit
    \/ \E i \in 1 .. MaxHits : TweenRun(i)

SceneSpec == SceneInit /\ [][SceneNext]_vars

----------------------------------------------------------------------------
(* Claims *)

\* C1: in every reload the dispose callback runs before the accept callback, and
\* the accept callback of a module instance has finished before create() of that
\* instance's scene runs on the engine the instance constructed.
C1_TeardownAcceptCreate ==
    \A m \in Modules :
        /\ acceptLog[m] # "none" => (m > 1 /\ disposeLog[m - 1])
        /\ (m > 1 /\ engines[m].created) => acceptLog[m] # "none"
        /\ (m > 1 /\ engines[m].state # "none") => disposeLog[m - 1]

C1_Witness ==
    \E m \in Modules :
        /\ m > 1
        /\ engines[m].created
        /\ acceptLog[m] = "returned"
        /\ disposeLog[m - 1]

\* C2: in every reachable state at most one engine instance is alive.
C2_AtMostOneAlive == Cardinality(Alive) <= 1

\* C3: after an accept callback has returned and before the next dispose begins,
\* exactly one engine instance is alive.
C3_ExactlyOneAfterAccept ==
    (pc = "idle" /\ cur > 1 /\ acceptLog[cur] = "returned") => Cardinality(Alive) = 1

\* C4: the position the player has when dispose runs is the position of the
\* module-level player after the following accept, and the position of the
\* player that the next create() of the new instance's scene makes.
C4_PositionRoundTrip ==
    [][/\ (pc = "evaluated" /\ pc' = "idle" /\ tornPos # <<>>) =>
            /\ _player'[cur] # None
            /\ <<players'[_player'[cur]].x, players'[_player'[cur]].y>> = tornPos
       /\ \A e \in Modules :
            (e = cur /\ ~engines[e].created /\ engines'[e].created /\ tornPos # <<>>) =>
                <<players'[_player'[e]].x, players'[_player'[e]].y>> = tornPos]_vars

C4_Witness ==
    /\ variant = "destroying"
    /\ cur = 3
    /\ engines[cur].created
    /\ tornPos # <<>>
    /\ tornPos # <<SpawnX, SpawnY>>
    /\ <<players[_player[cur]].x, players[_player[cur]].y>> = tornPos

\* C5 as stated: the counter of the newest module instance is never lower than it
\* was in an earlier state, the window between re-evaluation and accept included.
C5_NeverLower == [][_reloadCount'[cur'] >= _reloadCount[cur]]_vars

\* C5 as amended: outside the window between re-evaluation and accept the counter
\* of the newest module instance equals the number of completed reloads, so it
\* grows by exactly one per dispose/accept pair and never falls.
C5_CountsReloads == pc # "evaluated" => _reloadCount[cur] = cur - 1

C5_Witness == pc = "idle" /\ cur = 3 /\ _reloadCount[cur] = 2 /\ acceptLog[cur] = "returned"

\* C6: right after dispose returns no engine instance is alive and the registry
\* holds the player and the counter of the disposed module instance.
C6_TeardownDestroys ==
    pc = "disposed" =>
        /\ Alive = {}
        /\ hotData.player = _player[cur]
        /\ hotData.reloadCount = _reloadCount[cur]

\* C7: after a dispose/accept pair no engine instance that was alive before the
\* dispose is still alive.
C7_FreshInstance == (pc = "idle" /\ cur > 1) => Alive \cap tornAlive = {}

\* C8: with module.hot present game.ts constructs no engine while the module scope
\* is evaluated, only in the timer callback, and only when no engine instance
\* exists at that time.
C8_DeferredOnlyIfNone ==
    [][\A m \in Modules :
          (variant = "retaining" /\ hot /\ engines[m].state = "none"
             /\ engines'[m].state # "none") =>
                /\ pc = "idle"
                /\ timer[m] = "pending"
                /\ timer'[m] = "fired"
                /\ engines'[m].via = "deferred"
                /\ Alive = {}]_vars

C10_CreateFreshPlayer ==
    [][\A e \in Modules :
          (~engines[e].created /\ engines'[e].created) =>
              /\ engines[e].state = "alive"
              /\ players[e] = NoSprite
              /\ players'[e].engine = e
              /\ _player[e] # e
              /\ _player'[e] = e
              /\ IF _player[e] # None
                 THEN /\ players'[e].x = players[_player[e]].x
                      /\ players'[e].y = players[_player[e]].y
                 ELSE /\ players'[e].x = SpawnX
                      /\ players'[e].y = SpawnY
              /\ players'[e].vx = 0
              /\ players'[e].vy = 0
              /\ players'[e].flipX = FALSE
              /\ \A q \in Modules \ {e} : players'[q] = players[q]]_vars

C10_Witness ==
    \E e \in Modules :
        /\ e > 1
        /\ engines[e].created
        /\ steps = MaxFrames
        /\ _player[e] = e
        /\ hotData.player = e - 1
        /\ players[e].x = players[e - 1].x
        /\ players[e].y = players[e - 1].y
        /\ players[e].x # SpawnX
        /\ players[e].y # SpawnY

\* C11: after every update() frame the horizontal velocity is -200 when left is
\* down (also when right is down too), +200 when right is down and left is not,
\* and 0 when neither is down, whatever the velocity was before the frame.
C11_HorizontalByKeys ==
    [][steps' = steps + 1 =>
          players'[1].vx = (IF cursors'.left THEN 0 - WalkSpeed
                            ELSE IF cursors'.right THEN WalkSpeed ELSE 0)]_vars

\* a second frame with no key down, after a frame that moved the player
C11_Witness ==
    /\ scene = "plain"
    /\ steps > 1
    /\ players[1].x # SpawnX
    /\ ~cursors.left /\ ~cursors.right
    /\ players[1].vx = 0

\* C12: update() applies the jump impulse (vertical velocity -350) exactly when
\* the player touches the floor and up or space is down; in every other frame
\* it leaves the vertical velocity as the physics step left it, and both keys
\* together apply the impulse once.
C12_JumpOnlyFromFloor ==
    [][steps' = steps + 1 =>
          players'[1].vy = (IF blockedDown' /\ (cursors'.up \/ cursors'.space)
                            THEN 0 - JumpSpeed
                            ELSE integrate(players[1]).vy)]_vars

\* a frame in the air with both jump keys down that left a falling velocity alone
C12_Witness ==
    /\ scene = "plain"
    /\ steps > 0
    /\ ~blockedDown
    /\ cursors.up /\ cursors.space
    /\ players[1].vy > 0

\* C13: a frame that ends with positive horizontal velocity faces the player right
\* (flipX false), one that ends with negative velocity faces it left (flipX true),
\* and a frame that ends with zero velocity, like every step that is not a frame,
\* keeps the facing.
C13_StickyFacing ==
    [][IF steps' = steps + 1
       THEN /\ players'[1].vx > 0 => ~players'[1].flipX
            /\ players'[1].vx < 0 => players'[1].flipX
            /\ players'[1].vx = 0 => players'[1].flipX = players[1].flipX
       ELSE players'[1].flipX = players[1].flipX]_vars

\* standing still after a frame that moved left: still facing left
C13_Witness ==
    /\ scene = "plain"
    /\ steps > 1
    /\ players[1].vx = 0
    /\ players[1].flipX

\* C14: the accesses to the registry alternate, starting with a write by dispose:
\* every read by accept follows a write that no other read has consumed, and
\* each reload makes exactly one write and one read.
C14_RegistryAlternates ==
    /\ \A i \in 1 .. Len(regOps) : regOps[i] = (IF i % 2 = 1 THEN "w" ELSE "r")
    /\ Len(regOps) = 2 * (cur - 1) + (IF pc = "disposed" THEN 1
                                      ELSE IF pc = "evaluated" THEN 0 - 1 ELSE 0)

\* two reloads have completed
C14_Witness ==
    /\ pc = "idle"
    /\ regOps = <<"w", "r", "w", "r">>

\* C15: once dispose has run for an engine, no update() of that engine's scene runs
\* again: no frame changes the player of an engine that was alive at the teardown.
C15_NoStaleUpdate ==
    [][\A e \in tornAlive : steps' = steps + 1 => players'[e] = players[e]]_vars

\* C16: a frame of the fuller scene selects "jump" when it applied the jump
\* impulse, otherwise "walk" when the player touches the floor with nonzero
\* horizontal velocity and "idle" when it touches the floor with zero horizontal
\* velocity; a frame in the air selects no animation.
C16_AnimationByState ==
    [][(scene = "fuller" /\ steps' = steps + 1) =>
          players'[1].anim =
              (IF blockedDown' /\ (cursors'.up \/ cursors'.space) THEN "jump"
               ELSE IF ~blockedDown' THEN players[1].anim
               ELSE IF players'[1].vx = 0 THEN "idle" ELSE "walk")]_vars

\* a jump from the floor while walking left: "jump" overrides "walk"
C16_Witness ==
    /\ scene = "fuller"
    /\ steps > 0
    /\ blockedDown /\ cursors.left /\ cursors.up
    /\ players[1].vx = 0 - WalkSpeed
    /\ players[1].anim = "jump"

\* C17: a contact with a spike leaves the player with velocity (0, 0) at the spawn
\* position (50, 300), playing "idle" and invisible (alpha 0), and adds a tween
\* of its alpha to 1 that repeats 5 times, whatever the player's state was.
C17_SpikeRespawn ==
    [][Len(tweens') > Len(tweens) =>
          /\ players'[1].vx = 0 /\ players'[1].vy = 0
          /\ players'[1].x = SpawnX /\ players'[1].y = SpawnY
          /\ players'[1].anim = "idle"
          /\ players'[1].alpha = 0
          /\ tweens'[Len(tweens')] =
                [target |-> 1, alpha |-> 1, repeat |-> BlinkRepeat, at |-> "start"]]_vars

\* the last frame jumped from the floor, then the player hit a spike
C17_Witness ==
    /\ scene = "fuller"
    /\ steps > 1
    /\ blockedDown /\ cursors.up /\ cursors.right
    /\ Len(tweens) = 1 /\ tweens[1].at = "start" /\ tweens[1].repeat = BlinkRepeat
    /\ players[1].anim = "idle"
    /\ players[1].vx = 0 /\ players[1].vy = 0

\* C18: when the accept callback has run, the new module instance's counter is the
\* registry's counter plus one, its player reference is the registry's snapshot
\* and, in game.ts, its engine reference is the registry's engine.
C18_AcceptRestores ==
    [][(pc = "evaluated" /\ pc' = "idle") =>
          /\ _reloadCount'[cur] = hotData.reloadCount + 1
          /\ _player'[cur] = hotData.player
          /\ variant = "retaining" => _game'[cur] = hotData.game]_vars

\* a second reload of the destroying variant handed a created player over
C18_Witness ==
    /\ variant = "destroying"
    /\ pc = "idle"
    /\ cur > 2
    /\ acceptLog[cur] = "returned"
    /\ hotData.player # None
    /\ _player[cur] = hotData.player
    /\ _reloadCount[cur] = hotData.reloadCount + 1

\* C19: in game.ts the data the accept callback consumes is well-formed, its player
\* snapshot and its engine are defined, and the accept callback never faults in
\* its call of setGravityY on the restored player.
C19_HandoffWellFormed ==
    variant = "retaining" =>
        /\ pc = "evaluated" => (hotData.player # None /\ hotData.game # None)
        /\ \A m \in Modules : acceptLog[m] # "threw"

\* C20: after a reload, every frame that moves a player runs with that player's
\* gravity equal to the GRAVITY_Y of the current module instance.
C20_GravityOfNewModule ==
    [][\A e \in Modules :
          (cur > 1 /\ steps' = steps + 1 /\ players'[e] # players[e]) =>
              players[e].gravityY = GRAVITY[cur]]_vars

\* C21: whenever update() can run on an engine (the engine is alive and its scene
\* is created), the player its update() mutates is defined and was created by an
\* engine that is alive.
C21_UpdateOnLivePlayer ==
    \A e \in Modules :
        (engines[e].state = "alive" /\ engines[e].created) =>
            /\ _player[e] # None
            /\ engines[players[_player[e]].engine].state = "alive"

\* the engine of a reloaded module runs its scene, after the module's accept had
\* restored the player of the engine that dispose destroyed
C21_Witness ==
    /\ variant = "destroying"
    /\ cur > 1
    /\ pc = "idle"
    /\ engines[cur].state = "alive" /\ engines[cur].created
    /\ hotData.player # None
    /\ engines[hotData.player].state = "destroyed"
    /\ _player[cur] = cur

\* C22: a zero-delay timer constructs an engine only for a module instance that
\* has not been disposed, and only when no timer has constructed one before, so
\* the timers of all module instances together construct at most one engine.
C22_StaleTimerBuildsNothing ==
    [][\A m \in Modules :
          (engines[m].state = "none" /\ engines'[m].via = "deferred") =>
              /\ ~disposeLog[m]
              /\ \A e \in Modules : engines[e].via # "deferred"]_vars

C24_FrameEffects ==
    [][/\ (pc = "idle" /\ pc' = "disposed") =>
             (_reloadCount' = _reloadCount /\ _player' = _player /\ players' = players)
       /\ steps' = steps + 1 =>
             (_reloadCount' = _reloadCount /\ hotData' = hotData /\ regOps' = regOps
              /\ _game' = _game)]_vars

\* the second dispose, of a module that counts one reload and whose player has
\* moved in a frame since the first reload filled the registry
C24_Witness ==
    /\ pc = "disposed"
    /\ cur > 1
    /\ steps > 0
    /\ _reloadCount[cur] > 0
    /\ _player[cur] # None
    /\ players[_player[cur]].y # SpawnY
    /\ hotData.player = _player[cur]

====
